---- MODULE Spec2Model ----
(***************************************************************************)
(* A model of two utilities of tools/util.py:                              *)
(*   - pattern_match, the wildcard matcher (a pure function), and          *)
(*   - tty_capture, which runs a child on three pseudo-terminals and       *)
(*     collects its stdout and stderr in a select/read loop under a        *)
(*     wall-clock timeout.                                                 *)
(* Strings and byte strings are sequences.  Offsets follow Python: they    *)
(* count from 0, and find answers -1 when there is no occurrence.          *)
(***************************************************************************)
EXTENDS Integers, Sequences, FiniteSets, TLC

\* ------------------------------------------------------------------ bounds
MaxPat == 4
MaxStr == 3
MaxTail == 2
\* tty_capture: the timeouts tried (in ticks), how far the clock runs past the
\* longest of them, and how many writes the child makes at most
MaxTimeout == 2
TimeSlack == 1
MaxWrites == 2
\* stands for the 512 of os.read(fd, 512), scaled to the model's streams
ReadChunk == 1

\* ------------------------------------------------- strings (pattern_match)
NL == "\n"
STAR == "*"
Alphabet == {"a", NL, STAR}

\* The wildcard tokens pattern_match is called with: a one-character token
\* and a token that can overlap itself.
Wildcards == {<<STAR>>, <<STAR, STAR>>}

StrUpTo(n) == UNION {[1..k -> Alphabet] : k \in 0..n}

\* string[n:]
DropFirst(s, n) == SubSeq(s, n + 1, Len(s))

\* sub occurs in s at 0-based offset i
OccursAt(s, sub, i) ==
    /\ i + Len(sub) <= Len(s)
    /\ \A k \in 1..Len(sub) : s[i + k] = sub[k]

\* str.startswith
startswith(s, prefix) == OccursAt(s, prefix, 0)

\* str.find: the lowest offset at which sub occurs in s, or -1
find(s, sub) ==
    IF \E i \in 0..Len(s) : OccursAt(s, sub, i)
    THEN CHOOSE i \in 0..Len(s) :
            /\ OccursAt(s, sub, i)
            /\ \A j \in 0..(i - 1) : ~OccursAt(s, sub, j)
    ELSE -1

\* str.split(s, sep) for a non-empty sep: cut at the leftmost occurrences,
\* left to right, without overlap
RECURSIVE split(_, _)
split(s, sep) ==
    LET f == find(s, sep) IN
    IF f < 0 THEN <<s>>
    ELSE <<SubSeq(s, 1, f)>> \o split(DropFirst(s, f + Len(sep)), sep)

\* A slip of the loop of pattern_match: what is left of string after the
\* last segment is not looked at.
RECURSIVE match_loop_noend(_, _, _)
match_loop_noend(parts, i, string) ==
    IF i > Len(parts) THEN TRUE
    ELSE IF i = Len(parts) /\ (parts[i] = <<>> \/ parts[i] = <<NL>>) THEN TRUE
    ELSE LET found == find(string, parts[i]) IN
         IF found < 0 THEN FALSE
         ELSE match_loop_noend(parts, i + 1,
                               DropFirst(string, found + Len(parts[i])))

\* A slip of the loop of pattern_match: only an empty last segment ends the
\* match early, a last segment "\n" is searched for like any other.
RECURSIVE match_loop_nonl(_, _, _)
match_loop_nonl(parts, i, string) ==
    IF i > Len(parts) THEN Len(string) = 0
    ELSE IF i = Len(parts) /\ parts[i] = <<>> THEN TRUE
    ELSE LET found == find(string, parts[i]) IN
         IF found < 0 THEN FALSE
         ELSE match_loop_nonl(parts, i + 1,
                              DropFirst(string, found + Len(parts[i])))

\* The for loop of pattern_match from index i on (parts is 1-based here, so
\* i is the code's i + 1), and the return that follows it.
RECURSIVE match_loop(_, _, _)
match_loop(parts, i, string) ==
    IF i > Len(parts) THEN Len(string) = 0
    ELSE IF i = Len(parts) /\ (parts[i] = <<>> \/ parts[i] = <<NL>>) THEN TRUE
    ELSE LET found == find(string, parts[i]) IN
         IF found < 0 THEN FALSE
         ELSE match_loop(parts, i + 1,
                         DropFirst(string, found + Len(parts[i])))

\* A slip of pattern_match: a pattern without wildcard is looked for at the
\* start of string instead of being compared with it.
pattern_match_prefix(pattern, string, wildcard) ==
    IF pattern = wildcard THEN TRUE
    ELSE LET parts == split(pattern, wildcard) IN
         IF Len(parts) = 1 THEN startswith(string, pattern)
         ELSE IF startswith(string, parts[1])
              THEN match_loop(parts, 2, DropFirst(string, Len(parts[1])))
              ELSE FALSE

pattern_match(pattern, string, wildcard) ==
    IF pattern = wildcard THEN TRUE
    ELSE LET parts == split(pattern, wildcard) IN
         IF Len(parts) = 1 THEN pattern = string
         ELSE IF startswith(string, parts[1])
              THEN match_loop(parts, 2, DropFirst(string, Len(parts[1])))
              ELSE FALSE

\* ------------------------------------------------------------ tty_capture
\* One tick of the clock is the select timeout (.04 s).
select_timeout == 1

MaxTime == MaxTimeout + TimeSlack

\* The six descriptors of the three pty.openpty() calls.
Masters == {"mo", "me", "mi"}
Slaves == {"so", "se", "si"}
AllFds == Masters \cup Slaves

\* A slip of fdmap: the two output streams are exchanged.
fdmap_swapped(fd) ==
    IF fd = "mo" THEN "stderr" ELSE IF fd = "me" THEN "stdout" ELSE "stdin"

\* fdmap = {mo: 'stdout', me: 'stderr', mi: 'stdin'}
fdmap(fd) ==
    IF fd = "mo" THEN "stdout" ELSE IF fd = "me" THEN "stderr" ELSE "stdin"

\* The commands tty_capture is called with, by what the child does: whether
\* it can be launched at all, whether it ever exits, whether it writes.
Cmds ==
    {[runnable |-> FALSE, exits |-> FALSE, writes |-> FALSE]}
        \cup [runnable : {TRUE}, exits : BOOLEAN, writes : BOOLEAN]

\* The byte the harness feeds to the child; the bytes the child writes are
\* numbered 1, 2, ... in the order it writes them, so all bytes differ.
Inputs == {<<>>, <<0>>}

Min(a, b) == IF a < b THEN a ELSE b

Take(s, n) == SubSeq(s, 1, Min(n, Len(s)))

VARIABLES
    pm_pc, pattern, string, wildcard, result,   \* pattern_match
    pc,             \* where tty_capture is
    cmd, bytes_input, timeout,                  \* its arguments
    open,           \* the descriptors of the call that are open
    now,            \* time.time(), in ticks
    timeout_exact,
    sel_deadline,   \* when the select in progress gives up
    rlist,          \* the descriptors handed to the latest select
    ready,          \* what it returned, less the ones the for loop has done
    res,
    returncode,     \* p.returncode
    child,          \* "none", "running" or "exited"
    pending,        \* per master: bytes the child wrote that were not read yet
    eof,            \* per master: the device signals end of stream
    tty_in,         \* bytes written to mi that the child has not read yet
    written,        \* history: what the child wrote to each stream
    exit_time,      \* history: when the child exited (-1: not yet)
    zero_read       \* history: the descriptors a read of which returned b''

pm_vars == <<pm_pc, pattern, string, wildcard, result>>

harness_vars ==
    <<pc, cmd, bytes_input, timeout, open, timeout_exact, sel_deadline,
      rlist, ready, res, returncode, zero_read>>

child_vars == <<child, pending, eof, tty_in, written, exit_time>>

vars == <<pm_vars, harness_vars, child_vars, now>>

PMIdle ==
    /\ pm_pc = "idle"
    /\ pattern = <<>>
    /\ string = <<>>
    /\ wildcard = <<STAR>>
    /\ result = FALSE

TtyIdle(first) ==
    /\ pc = first
    /\ open = {}
    /\ now = 0
    /\ timeout_exact = 0
    /\ sel_deadline = 0
    /\ rlist = {}
    /\ ready = <<>>
    /\ res = [stdout |-> <<>>, stderr |-> <<>>]
    /\ returncode = -1
    /\ child = "none"
    /\ pending = [mo |-> <<>>, me |-> <<>>]
    /\ eof = [mo |-> FALSE, me |-> FALSE]
    /\ tty_in = <<>>
    /\ written = [stdout |-> <<>>, stderr |-> <<>>]
    /\ exit_time = -1
    /\ zero_read = {}

\* ---- the harness

\* lines 466-469: the three pty.openpty() calls
OpenPtys ==
    /\ pc = "openpty"
    /\ open' = AllFds
    /\ pc' = "popen"
    /\ UNCHANGED <<cmd, bytes_input, timeout, timeout_exact, sel_deadline,
                   rlist, ready, res, returncode, zero_read>>
    /\ UNCHANGED <<pm_vars, child_vars, now>>

\* lines 471-473: the deadline, then subprocess.Popen, which raises OSError
\* for a command that cannot be launched
Popen ==
    /\ pc = "popen"
    /\ timeout_exact' = now + timeout
    /\ IF cmd.runnable
       THEN child' = "running" /\ pc' = "write"
       ELSE child' = child /\ pc' = "raised"
    /\ UNCHANGED <<cmd, bytes_input, timeout, open, sel_deadline, rlist,
                   ready, res, returncode, zero_read>>
    /\ UNCHANGED <<pm_vars, pending, eof, tty_in, written, exit_time, now>>

\* line 474: os.write(mi, bytes_input), which the system may refuse
WriteInput ==
    /\ pc = "write"
    /\ \/ tty_in' = tty_in \o bytes_input /\ pc' = "select"
       \/ tty_in' = tty_in /\ pc' = "raised"
    /\ UNCHANGED <<cmd, bytes_input, timeout, open, timeout_exact,
                   sel_deadline, rlist, ready, res, returncode, zero_read>>
    /\ UNCHANGED <<pm_vars, child, pending, eof, written, exit_time, now>>

\* A descriptor is readable when bytes are pending or at end of stream.
Readable(fd) == pending[fd] # <<>> \/ eof[fd]

\* select answers in the order of its argument, [mo, me]
ReadyList ==
    (IF Readable("mo") THEN <<"mo">> ELSE <<>>)
        \o (IF Readable("me") THEN <<"me">> ELSE <<>>)

\* line 479: select.select([mo, me], [], [], select_timeout) is entered
SelectCall ==
    /\ pc = "select"
    /\ rlist' = {"mo", "me"}
    /\ sel_deadline' = Min(now + select_timeout, MaxTime)
    /\ pc' = "selecting"
    /\ UNCHANGED <<cmd, bytes_input, timeout, open, timeout_exact, ready,
                   res, returncode, zero_read>>
    /\ UNCHANGED <<pm_vars, child_vars, now>>

\* line 479: select returns, with the readable descriptors as soon as there
\* are some, with none once select_timeout has passed
SelectReturn ==
    /\ pc = "selecting"
    /\ ReadyList # <<>> \/ now >= sel_deadline
    /\ ready' = ReadyList
    /\ pc' = IF ReadyList # <<>> THEN "read" ELSE "check"
    /\ UNCHANGED <<cmd, bytes_input, timeout, open, timeout_exact,
                   sel_deadline, rlist, res, returncode, zero_read>>
    /\ UNCHANGED <<pm_vars, child_vars, now>>

\* lines 481-485: one round of the for loop; an empty read breaks out of the
\* for loop, and the while loop goes on
ReadFd ==
    /\ pc = "read"
    /\ LET fd == Head(ready)
           data == Take(pending[fd], ReadChunk)
       IN IF data = <<>>
          THEN /\ zero_read' = zero_read \cup {fd}
               /\ ready' = <<>>
               /\ pc' = "select"
               /\ UNCHANGED <<res, pending>>
          ELSE /\ res' = [res EXCEPT ![fdmap(fd)] = @ \o data]
               /\ pending' = [pending EXCEPT ![fd] = DropFirst(@, Len(data))]
               /\ ready' = Tail(ready)
               /\ pc' = IF Tail(ready) = <<>> THEN "select" ELSE "read"
               /\ UNCHANGED zero_read
    /\ UNCHANGED <<cmd, bytes_input, timeout, open, timeout_exact,
                   sel_deadline, rlist, returncode>>
    /\ UNCHANGED <<pm_vars, child, eof, tty_in, written, exit_time, now>>

\* lines 486-488: select came back empty
CheckExit ==
    /\ pc = "check"
    /\ IF child = "exited"
       THEN returncode' = 0 /\ pc' = "close"
       ELSE /\ returncode' = returncode
            /\ pc' = IF now > timeout_exact THEN "close" ELSE "select"
    /\ UNCHANGED <<cmd, bytes_input, timeout, open, timeout_exact,
                   sel_deadline, rlist, ready, res, zero_read>>
    /\ UNCHANGED <<pm_vars, child_vars, now>>

\* lines 489-490: the six descriptors are closed; what was pending is gone
CloseFds ==
    /\ pc = "close"
    /\ open' = open \ AllFds
    /\ pending' = [fd \in DOMAIN pending |-> <<>>]
    /\ pc' = "wait"
    /\ UNCHANGED <<cmd, bytes_input, timeout, timeout_exact, sel_deadline,
                   rlist, ready, res, returncode, zero_read>>
    /\ UNCHANGED <<pm_vars, child, eof, tty_in, written, exit_time, now>>

\* lines 491-492: p.wait() returns once the child has exited, and
\* tty_capture returns
WaitReturn ==
    /\ pc = "wait"
    /\ child = "exited"
    /\ returncode' = 0
    /\ pc' = "done"
    /\ UNCHANGED <<cmd, bytes_input, timeout, open, timeout_exact,
                   sel_deadline, rlist, ready, res, zero_read>>
    /\ UNCHANGED <<pm_vars, child_vars, now>>

Harness ==
    \/ OpenPtys
    \/ Popen
    \/ WriteInput
    \/ SelectCall
    \/ SelectReturn
    \/ ReadFd
    \/ CheckExit
    \/ CloseFds
    \/ WaitReturn

\* ---- the child and the pseudo-terminals

NWritten == Len(written.stdout) + Len(written.stderr)

\* The child's descriptors 1 and 2 are so and se (line 473), the slaves of
\* mo and me (lines 466-467).
ChildOutputs ==
    {[stream |-> "stdout", master |-> "mo"],
     [stream |-> "stderr", master |-> "me"]}

\* the child writes one byte to its stdout or its stderr; once the harness
\* has closed the descriptors a write no longer succeeds
ChildWrite ==
    /\ child = "running"
    /\ cmd.writes
    /\ NWritten < MaxWrites
    /\ \E w \in ChildOutputs :
          /\ w.master \in open
          /\ written' = [written EXCEPT ![w.stream] = Append(@, NWritten + 1)]
          /\ pending' = [pending EXCEPT ![w.master] = Append(@, NWritten + 1)]
    /\ UNCHANGED <<child, eof, tty_in, exit_time>>
    /\ UNCHANGED <<pm_vars, harness_vars, now>>

\* the child reads what is there on its stdin
ChildRead ==
    /\ child = "running"
    /\ tty_in # <<>>
    /\ tty_in' = <<>>
    /\ UNCHANGED <<child, pending, eof, written, exit_time>>
    /\ UNCHANGED <<pm_vars, harness_vars, now>>

ChildExit ==
    /\ child = "running"
    /\ cmd.exits
    /\ child' = "exited"
    /\ exit_time' = now
    /\ UNCHANGED <<pending, eof, tty_in, written>>
    /\ UNCHANGED <<pm_vars, harness_vars, now>>

\* after the child's exit a pseudo-terminal may signal end of stream on its
\* master (whether it does while the harness holds the slave depends on the
\* platform)
Hangup ==
    /\ child = "exited"
    /\ \E fd \in {"mo", "me"} :
          /\ fd \in open
          /\ ~eof[fd]
          /\ eof' = [eof EXCEPT ![fd] = TRUE]
    /\ UNCHANGED <<child, pending, tty_in, written, exit_time>>
    /\ UNCHANGED <<pm_vars, harness_vars, now>>

\* Time is counted from the time.time() of line 471.
Tick ==
    /\ pc \notin {"idle", "openpty", "popen"}
    /\ now < MaxTime
    /\ now' = now + 1
    /\ UNCHANGED <<pm_vars, harness_vars, child_vars>>

Init ==
    /\ PMIdle
    /\ TtyIdle("openpty")
    /\ cmd \in Cmds
    /\ bytes_input \in Inputs
    /\ timeout \in 1..MaxTimeout

Next ==
    \/ Harness
    \/ ChildWrite
    \/ ChildRead
    \/ ChildExit
    \/ Hangup
    \/ Tick

Spec == Init /\ [][Next]_vars

\* The harness is a running process and the clock advances.
FairSpec == Spec /\ WF_vars(Harness) /\ WF_vars(Tick)

\* ---------------------------------------------------------- pattern_match
PMInit ==
    /\ pm_pc = "call"
    /\ pattern \in StrUpTo(MaxPat)
    /\ string \in StrUpTo(MaxStr)
    /\ wildcard \in Wildcards
    /\ result = FALSE
    /\ TtyIdle("idle")
    /\ cmd = [runnable |-> FALSE, exits |-> FALSE, writes |-> FALSE]
    /\ bytes_input = <<>>
    /\ timeout = 1

Call_pattern_match ==
    /\ pm_pc = "call"
    /\ result' = pattern_match(pattern, string, wildcard)
    /\ pm_pc' = "returned"
    /\ UNCHANGED <<pattern, string, wildcard>>
    /\ UNCHANGED <<harness_vars, child_vars, now>>

PMNext == Call_pattern_match

SpecPM == PMInit /\ [][PMNext]_vars

\* ================================================================ claims
\* The pc values of the while loop of tty_capture (lines 478-488).
InLoop == pc \in {"select", "selecting", "read", "check"}

\* C1: for a child that exits before the timeout, tty_capture returns every
\* byte the child wrote to its stdout as the stdout result and every byte it
\* wrote to its stderr as the stderr result, under every interleaving.
C1_AllOutputReturned ==
    (pc = "done" /\ exit_time # -1 /\ exit_time < timeout_exact)
        => (res.stdout = written.stdout /\ res.stderr = written.stderr)

\* C2: for a child that produces no output and never exits, tty_capture
\* returns once the timeout has elapsed: from the loop with the timeout
\* elapsed, the call eventually reaches its return statement.
C2_ReturnsAfterTimeout ==
    (InLoop /\ ~cmd.exits /\ ~cmd.writes /\ now > timeout_exact)
        ~> (pc = "done")

\* C4: for a child that never exits and keeps writing, the polling loop ends
\* once the timeout has elapsed: with the timeout elapsed, the loop does not
\* go from its body into another iteration.
C4_LoopEndsAtTimeout ==
    [][(~cmd.exits /\ cmd.writes /\ pc = "read" /\ pc' = "select")
          => now <= timeout_exact]_vars

\* C5: on every exit path of tty_capture, the return as well as a failure of
\* the process launch or of the input write, every pseudo-terminal descriptor
\* the call opened has been closed when the call ends.
C5_AllClosedAtExit == pc \in {"done", "raised"} => open = {}

\* C8: once a read of the stdout or stderr master has returned zero bytes,
\* that descriptor is not handed to select again.
C8_NoPollAfterZeroRead ==
    [][(pc = "select" /\ pc' = "selecting")
          => rlist' \cap zero_read = {}]_vars

\* s is a prefix of t
IsPrefix(s, t) == Len(s) <= Len(t) /\ SubSeq(t, 1, Len(s)) = s

Parts == split(pattern, wildcard)

LastPart == Parts[Len(Parts)]

HasWildcard == find(pattern, wildcard) >= 0

\* string is pattern with each wildcard replaced by some string: parts are
\* the literal segments between the wildcards
RECURSIVE WildcardsFilled(_, _)
WildcardsFilled(parts, s) ==
    IF Len(parts) = 1 THEN s = parts[1]
    ELSE /\ startswith(s, parts[1])
         /\ \E k \in Len(parts[1])..Len(s) :
               WildcardsFilled(Tail(parts), DropFirst(s, k))

\* C3: pattern_match(pattern, string) is True exactly when string is pattern
\* with each wildcard replaced by some, possibly empty, string.
C3_MatchesLikeDotStar ==
    pm_pc = "returned" => (result <=> WildcardsFilled(Parts, string))

\* s ends with suffix
endswith(s, suffix) ==
    /\ Len(suffix) <= Len(s)
    /\ OccursAt(s, suffix, Len(s) - Len(suffix))

\* C6: for a pattern with a wildcard whose last segment is neither empty nor
\* a single newline, pattern_match is True only if string ends with that
\* last segment.
C6_NothingAfterLastSegment ==
    (pm_pc = "returned" /\ HasWildcard /\ LastPart \notin {<<>>, <<NL>>}
         /\ result)
        => endswith(string, LastPart)

\* C6's case: a match through a wildcard that stands for something, up to a
\* last segment that is searched for.
C6_Witness ==
    /\ pm_pc = "returned"
    /\ HasWildcard
    /\ LastPart \notin {<<>>, <<NL>>}
    /\ result
    /\ Len(string) > Len(pattern) - Len(wildcard)

\* C7: for a pattern without wildcard, pattern_match(pattern, string) equals
\* (pattern == string).
C7_NoWildcardIsEquality ==
    (pm_pc = "returned" /\ ~HasWildcard) => (result <=> pattern = string)

\* C7's case: both outcomes for a pattern without wildcard; here the match.
C7_Witness ==
    /\ pm_pc = "returned"
    /\ ~HasWildcard
    /\ Len(pattern) >= 2
    /\ result

====
